---- MODULE Spec2Model ----
(***************************************************************************)
(* defy: the catalog store (sled trees "track_details", "track_features"   *)
(* and "input/<feature>"), the catalog populator of main.rs, the labeling  *)
(* web handlers of data_input.rs, the dataset builders of learning.rs and  *)
(* the single-use shutdown signal of the labeling web service, the token   *)
(* acquisition of kickstart.rs with its OAuth callback listener, and the   *)
(* playlist rewrite of perform_update and write_playlist in main.rs.       *)
(*                                                                         *)
(* Conventions.  Option<T>: None is <<>>, Some(x) is <<x>>.  A sled tree   *)
(* is a function from its keys to byte values; track ids are fixed-length  *)
(* strings, here the integers 1..MaxTrack, whose numeric order is the      *)
(* byte order sled iterates in.  serde_json bytes are the tuple <<"null">> *)
(* or <<"obj", record>>; a label value is the one-byte sequence <<r>>.     *)
(***************************************************************************)
EXTENDS Integers, Sequences, FiniteSets, TLC

VARIABLES
    db,         \* sled::Db on disk: tree name -> tree
    remote,     \* the remote music service, as the client sees it
    pc,         \* where main() is
    cursor,     \* populate_database: last key the track_details iterator gave
    fetched,    \* populate_database: ids sent to tracks_features in this run
    prev,       \* Some(track_features as the last complete populate run left
                \*   it, the remote unchanged since), else None
    runs,       \* process starts so far
    errors,     \* remote requests that have failed so far
    resp,       \* the last response a web handler or dataset builder produced
    shutdown_mechanism, \* Arc<Mutex<Option<oneshot::Sender<()>>>>: the slot
    shutdown_rx,        \* the oneshot receiver: "pending", "sent"
    lock,       \* holder of the tokio Mutex (0: free)
    hpc,        \* per shutdown request: position in the handler
    server,     \* the axum server: "off", "serving", "draining", "stopped"
    cache,      \* the token cache file: "absent", "expired", "valid"
    kpc,        \* where kickstart() is
    txs,        \* kickstart: Arc<Mutex<Option<oneshot::Sender<()>>>>, the slot
    rx,         \* kickstart: the oneshot receiver: "pending", "sent"
    txs_lock,   \* holder of the Mutex of txs (0: free)
    cpc,        \* per OAuth callback request: position in auth_callback
    stage,      \* per OAuth callback request: "none", "token" (request_token
                \*   succeeded), "cached" (write_token_cache succeeded too)
    listener,   \* the callback server: "off", "bound", "serving", "draining"
    armed,      \* oneshot channels kickstart has created so far
    sent,       \* send(()) calls of auth_callback so far
    invalidations,  \* times the cached token has expired or been removed
    upc,        \* where perform_update() and its write_playlist() are
    source_playlist,    \* perform_update: main_playlist, the tracks
                \*   fetch_playlist returned
    tracks_deque,   \* write_playlist: tracks, the VecDeque not yet drained
    loop_i,     \* write_playlist: i, the loop counter of for i in 0..
    batch,      \* write_playlist: the ids drained for the pending add call
    playlist,   \* the remote playlist write_playlist rewrites
    calls       \* write_playlist: the remote calls answered so far, in order

vars == <<db, remote, pc, cursor, fetched, prev, runs, errors, resp,
          shutdown_mechanism, shutdown_rx, lock, hpc, server,
          cache, kpc, txs, rx, txs_lock, cpc, stage, listener, armed, sent,
          invalidations,
          upc, source_playlist, tracks_deque, loop_i, batch, playlist, calls>>

storeVars == <<db, remote, pc, cursor, fetched, prev, runs, errors, resp>>
serviceVars == <<shutdown_mechanism, shutdown_rx, lock, hpc, server>>
authVars == <<cache, kpc, txs, rx, txs_lock, cpc, stage, listener, armed, sent,
              invalidations>>
playlistVars == <<upc, source_playlist, tracks_deque, loop_i, batch, playlist,
                  calls>>

(***************************************************************************)
(* Bounds                                                                  *)
(***************************************************************************)
MaxTrack == 3       \* track ids known to the remote service
MaxLabels == 2      \* Label Records in the store
MaxRuns == 2        \* process starts per behaviour
MaxErrors == 1      \* failed remote requests per behaviour
MaxVersion == 2     \* versions of the remote's audio analysis
MaxRequests == 2    \* requests in flight: POST /api/shutdown, GET /api/callback
MaxInvalidations == 1   \* times the cached token expires or is removed
MaxPlaylist == 101  \* tracks in the main playlist perform_update fetches

TrackIds == 1..MaxTrack
FeatureIds == {"a", "b"}
Ratings == {0, 1}
Requests == 1..MaxRequests

\* .chunks(100): the page size of the audio-features fetch, scaled down so
\* that MaxTrack tracks fill more than one page.
ChunkSize == 2

(***************************************************************************)
(* Option, trees, serde_json                                               *)
(***************************************************************************)
None == <<>>
Some(x) == <<x>>

EmptyTree == <<>>

\* Insert as compare_and_swap(key, None, value): the first write wins
InsertKeepFirst(tree, key, value) ==
    [k \in (DOMAIN tree) \cup {key} |-> IF k \in DOMAIN tree THEN tree[k] ELSE value]

\* tree.insert(key, value)
Insert(tree, key, value) ==
    [k \in (DOMAIN tree) \cup {key} |-> IF k = key THEN value ELSE tree[k]]

\* tree.get(key)
Get(tree, key) == IF key \in DOMAIN tree THEN Some(tree[key]) ELSE None

OpenTree(d, name) ==
    IF name \in DOMAIN d THEN d
    ELSE [n \in (DOMAIN d) \cup {name} |-> IF n = name THEN EmptyTree ELSE d[n]]

TreeInsert(d, name, key, value) ==
    [d EXCEPT ![name] = Insert(d[name], key, value)]

RECURSIVE Iter(_)
\* tree.iter(): the keys in ascending order
Iter(keys) ==
    IF keys = {} THEN <<>>
    ELSE LET m == CHOOSE k \in keys : \A o \in keys : k <= o
         IN <<m>> \o Iter(keys \ {m})

\* serde_json::to_vec of an Option<AudioFeatures>
ToVecOption(o) == IF o = None THEN <<"null">> ELSE <<"obj", o[1]>>
\* serde_json::to_vec of a SimplifiedTrack
ToVec(x) == <<"obj", x>>
\* serde_json::from_slice into an Option<AudioFeatures>
FromSliceOption(b) == IF b = <<"null">> THEN None ELSE Some(b[2])
\* serde_json::from_slice into a SimplifiedTrack
FromSlice(b) == b[2]

DetailsName == "track_details"
FeaturesName == "track_features"
\* InputName with the feature id left out: one tree for all features
InputNameShared(feature_id) == "input/"

\* format!("input/{}", feature_id)
InputName(feature_id) == "input/" \o feature_id

(***************************************************************************)
(* The remote service.  kind[t]: how track t reaches the populator         *)
(* ("P+": in the main playlist, markets DE and PL; "P-": in the main       *)
(* playlist, market DE only; "L0": on a saved album, no market list);      *)
(* avail[t]: whether the service has an audio analysis of t; version: the  *)
(* analysis the service currently returns; limit: how many entries one     *)
(* audio-features response carries at most (0: an empty body).             *)
(***************************************************************************)
Kinds == {"P+", "P-", "L0"}

\* rspotify::model::AudioFeatures of track t in analysis version v
AudioFeatures(t, v) ==
    LET b == 100 * t + 20 * v
    IN [id |-> t, acousticness |-> b + 1, danceability |-> b + 2,
        energy |-> b + 3, instrumentalness |-> b + 4, key |-> b + 5,
        liveness |-> b + 6, loudness |-> b + 7, speechiness |-> b + 8,
        tempo |-> b + 9, time_signature |-> b + 10, valence |-> b + 11]

RECURSIVE Rev(_)
Rev(s) == IF s = <<>> THEN <<>> ELSE Rev(Tail(s)) \o <<Head(s)>>

\* client.playlist_items(..), the tracks of it: FullTrack values, newest first
RemotePlaylist(r) ==
    LET FullTrack(t) == [id |-> t,
                         available_markets |->
                             IF r.kind[t] = "P+" THEN <<"DE", "PL">> ELSE <<"DE">>]
        ids == Rev(Iter({t \in TrackIds : r.kind[t] \in {"P+", "P-"}}))
    IN [i \in 1..Len(ids) |-> FullTrack(ids[i])]

\* the saved albums' tracks: SimplifiedTrack values, one of them a local file
\* without an id
RemoteLibrary(r) ==
    LET Simplified(t) == [id |-> Some(t), available_markets |-> None]
        ids == Iter({t \in TrackIds : r.kind[t] = "L0"})
    IN <<[id |-> None, available_markets |-> None]>>
       \o [i \in 1..Len(ids) |-> Simplified(ids[i])]

\* client.tracks_features(&page), when the request succeeds:
\* Option<Vec<Option<AudioFeatures>>>
TracksFeatures(r, page) ==
    LET One(t) == IF r.avail[t] THEN Some(AudioFeatures(t, r.version)) ELSE None
        n == IF Len(page) < r.limit THEN Len(page) ELSE r.limit
    IN IF r.limit = 0 THEN None
       ELSE Some([i \in 1..n |-> One(page[i])])

(***************************************************************************)
(* main.rs                                                                 *)
(***************************************************************************)
simplify_track(track) ==
    [id |-> Some(track.id), available_markets |-> Some(track.available_markets)]

RECURSIVE InsertTracks(_, _)
\* lines 198-205: for track in all_tracks.iter() { tracks_db.insert(..) }
InsertTracks(tree, tracks) ==
    IF tracks = <<>> THEN tree
    ELSE InsertTracks(Insert(tree, Head(tracks).id[1], ToVec(Head(tracks))),
                      Tail(tracks))

\* lines 192-196
AllTracks(r) ==
    LET main_playlist == [i \in 1..Len(RemotePlaylist(r)) |->
                             simplify_track(RemotePlaylist(r)[i])]
    IN SelectSeq(main_playlist \o RemoteLibrary(r), LAMBDA track : track.id # None)

\* Missing with the contains_key filter lost
MissingAlways(features_db, key) == TRUE

\* line 214
Missing(features_db, key) == key \notin DOMAIN features_db

\* lines 210-219: the next chunk of the keys of track_details that have no
\* track_features record, after the keys the iterator has passed
Page(d, cur) ==
    LET missing == Iter({k \in DOMAIN d[DetailsName] :
                            k > cur /\ Missing(d[FeaturesName], k)})
    IN IF Len(missing) <= ChunkSize THEN missing ELSE SubSeq(missing, 1, ChunkSize)

RECURSIVE InsertZip(_, _, _)
\* lines 220-227: for (track_id, featureset) in page.iter().zip(..)
InsertZip(tree, page, featuresets) ==
    IF page = <<>> \/ featuresets = <<>> THEN tree
    ELSE InsertZip(Insert(tree, Head(page), ToVecOption(Head(featuresets))),
                   Tail(page), Tail(featuresets))

\* data_input.rs, web_interface, lines 25-76: the signal is armed and the
\* server bound; when the browser cannot be opened (line 75) web_interface
\* returns the error, main returns it (line 48) and the server never runs.
\* opens: the outcomes webbrowser::open may have
WebInterfaceStart(opens) ==
    \E opened \in opens :
        IF opened
        THEN /\ pc' = "web"
             /\ shutdown_mechanism' = Some("shutdown_tx")
             /\ shutdown_rx' = "pending"
             /\ server' = "serving"
             /\ UNCHANGED <<lock, hpc>>
        ELSE /\ pc' = "failed"
             /\ UNCHANGED serviceVars

\* main, lines 41-48; skips: the values SKIP_POPULATING may have
Start(skips, opens) ==
    /\ pc = "start"
    /\ \E skip \in skips :
          IF skip
          THEN WebInterfaceStart(opens)
          ELSE pc' = "populate" /\ UNCHANGED serviceVars
    /\ UNCHANGED <<db, remote, cursor, fetched, prev, runs, errors, resp>>
    /\ UNCHANGED authVars
    /\ UNCHANGED playlistVars

\* populate_database, lines 181-209
PopulateTracks ==
    /\ pc = "populate"
    /\ \E ok \in {TRUE} \cup {FALSE : e \in {errors} \ {MaxErrors}} :
          IF ok
          THEN LET d == OpenTree(db, DetailsName)
                   t == [d EXCEPT ![DetailsName] =
                            InsertTracks(d[DetailsName], AllTracks(remote))]
               IN /\ db' = OpenTree(t, FeaturesName)
                  /\ pc' = "features"
                  /\ errors' = errors
          ELSE /\ db' = db
               /\ pc' = "failed"
               /\ errors' = errors + 1
    /\ cursor' = 0
    /\ fetched' = {}
    /\ UNCHANGED <<remote, prev, runs, resp>>
    /\ UNCHANGED serviceVars
    /\ UNCHANGED authVars
    /\ UNCHANGED playlistVars

\* populate_database, one turn of the loop of lines 210-229
PopulateBatch ==
    /\ pc = "features"
    /\ Page(db, cursor) # <<>>
    /\ LET page == Page(db, cursor)
       IN /\ fetched' = fetched \cup {page[i] : i \in 1..Len(page)}
          /\ cursor' = page[Len(page)]
          /\ \E ok \in {TRUE} \cup {FALSE : e \in {errors} \ {MaxErrors}} :
                IF ok
                THEN LET got == TracksFeatures(remote, page)
                         featuresets == IF got = None THEN <<>> ELSE got[1]
                     IN /\ db' = [db EXCEPT ![FeaturesName] =
                                     InsertZip(db[FeaturesName], page, featuresets)]
                        /\ pc' = pc
                        /\ prev' = prev
                        /\ errors' = errors
                ELSE /\ db' = db
                     /\ pc' = "failed"
                     /\ prev' = None
                     /\ errors' = errors + 1
    /\ UNCHANGED <<remote, runs, resp>>
    /\ UNCHANGED serviceVars
    /\ UNCHANGED authVars
    /\ UNCHANGED playlistVars

\* populate_database, lines 230-232, and main, lines 47-48
PopulateDone(opens) ==
    /\ pc = "features"
    /\ Page(db, cursor) = <<>>
    /\ prev' = Some(db[FeaturesName])
    /\ WebInterfaceStart(opens)
    /\ UNCHANGED <<db, remote, cursor, fetched, runs, errors, resp>>
    /\ UNCHANGED authVars
    /\ UNCHANGED playlistVars

\* the remote service re-analyses its catalogue
RemoteChange ==
    /\ pc \in {"exit", "failed"}
    /\ remote.version < MaxVersion
    /\ remote' = [remote EXCEPT !.version = @ + 1]
    /\ prev' = None
    /\ UNCHANGED <<db, pc, cursor, fetched, runs, errors, resp>>
    /\ UNCHANGED serviceVars
    /\ UNCHANGED authVars
    /\ UNCHANGED playlistVars

(***************************************************************************)
(* data_input.rs: the handlers on the store                                *)
(***************************************************************************)
\* a response: the handler, its path parameters, Ok or Err and the body; old is
\* what Tree::insert returned to rate_feature_for_track (the record replaced)
NoResponse == [op |-> "none", arg |-> "", status |-> "none", body |-> "", old |-> None]
Ok(op, arg, body) ==
    [op |-> op, arg |-> arg, status |-> "ok", body |-> body, old |-> None]
Err(op, arg, body) ==
    [op |-> op, arg |-> arg, status |-> "err", body |-> body, old |-> None]

\* line 113
null_ivec == ToVecOption(None)

\* name.strip_prefix("input/")
StripPrefix(name) ==
    IF Len(name) >= 6 /\ SubSeq(name, 1, 6) = "input/"
    THEN Some(SubSeq(name, 7, Len(name)))
    ELSE None

\* list_features, lines 88-92 (the Vec as a set: its order is the store's)
FeatureList(d) ==
    {StripPrefix(name)[1] : name \in {n \in DOMAIN d : StripPrefix(n) # None}}

\* InMarket as map_or(true, ..): a track without a market list passes
InMarketUnlessListed(details) ==
    IF details.available_markets = None THEN TRUE
    ELSE \E i \in 1..Len(details.available_markets[1]) :
            details.available_markets[1][i] = "PL"

\* lines 123-128
InMarket(details) ==
    IF details.available_markets = None THEN FALSE
    ELSE \E i \in 1..Len(details.available_markets[1]) :
            details.available_markets[1][i] = "PL"

\* Trained with the contains_key test lost
TrainedNever(feature_tree, id) == FALSE

\* line 116
Trained(feature_tree, id) == id \in DOMAIN feature_tree

\* NoRecord with the None arm lost
NoRecordNever(features_tree, id) == FALSE

\* line 118
NoRecord(features_tree, id) == Get(features_tree, id) = None

\* NullRecord with the null arm lost
NullRecordNever(features_tree, id) == FALSE

\* line 119
NullRecord(features_tree, id) == Get(features_tree, id) = Some(null_ivec)

RECURSIVE Scan(_, _, _, _)
\* random_untrained_track_for_feature, lines 114-135, from the keys left
Scan(details_tree, features_tree, feature_tree, keys) ==
    IF keys = <<>> THEN None
    ELSE LET id == Head(keys)
             rest == Scan(details_tree, features_tree, feature_tree, Tail(keys))
         IN IF Trained(feature_tree, id) THEN rest
            ELSE IF NoRecord(features_tree, id) THEN rest
            ELSE IF NullRecord(features_tree, id) THEN rest
            ELSE IF ~InMarket(FromSlice(details_tree[id])) THEN rest
            ELSE Some(FromSlice(details_tree[id]))

\* lines 110-112
OpenForFeature(d, feature_id) ==
    OpenTree(OpenTree(OpenTree(d, DetailsName), FeaturesName), InputName(feature_id))

RandomUntrained(d, feature_id) ==
    LET o == OpenForFeature(d, feature_id)
    IN Scan(o[DetailsName], o[FeaturesName], o[InputName(feature_id)],
            Iter(DOMAIN o[DetailsName]))

list_features ==
    /\ server \in {"serving", "draining"}
    /\ resp' = Ok("list_features", "", FeatureList(db))
    /\ UNCHANGED <<db, remote, pc, cursor, fetched, prev, runs, errors>>
    /\ UNCHANGED serviceVars
    /\ UNCHANGED authVars
    /\ UNCHANGED playlistVars

create_feature(feature_id) ==
    /\ server \in {"serving", "draining"}
    /\ db' = OpenTree(db, InputName(feature_id))
    /\ resp' = Ok("create_feature", "", "ok")
    /\ UNCHANGED <<remote, pc, cursor, fetched, prev, runs, errors>>
    /\ UNCHANGED serviceVars
    /\ UNCHANGED authVars
    /\ UNCHANGED playlistVars

random_untrained_track_for_feature(feature_id) ==
    /\ server \in {"serving", "draining"}
    /\ db' = OpenForFeature(db, feature_id)
    /\ LET found == RandomUntrained(db, feature_id)
       IN resp' = IF found = None
                  THEN Err("random_untrained", feature_id, "no more tracks")
                  ELSE Ok("random_untrained", feature_id, found[1])
    /\ UNCHANGED <<remote, pc, cursor, fetched, prev, runs, errors>>
    /\ UNCHANGED serviceVars
    /\ UNCHANGED authVars
    /\ UNCHANGED playlistVars

\* the Label Records of the store, as <<feature, key>> pairs
LabelRecords(d) ==
    {fk \in FeatureIds \X TrackIds :
        InputName(fk[1]) \in DOMAIN d /\ fk[2] \in DOMAIN d[InputName(fk[1])]}

rate_feature_for_track(feature_id, track_id, rating) ==
    /\ server \in {"serving", "draining"}
    /\ \/ <<feature_id, track_id>> \in LabelRecords(db)
       \/ Cardinality(LabelRecords(db)) < MaxLabels
    /\ db' = TreeInsert(OpenTree(db, InputName(feature_id)), InputName(feature_id),
                        track_id, <<rating>>)
    /\ resp' = [Ok("rate", <<feature_id, track_id, rating>>, "ok") EXCEPT
                    !.old = Get(OpenTree(db, InputName(feature_id))[InputName(feature_id)],
                                track_id)]
    /\ UNCHANGED <<remote, pc, cursor, fetched, prev, runs, errors>>
    /\ UNCHANGED serviceVars
    /\ UNCHANGED authVars
    /\ UNCHANGED playlistVars

(***************************************************************************)
(* learning.rs                                                             *)
(***************************************************************************)
\* Row with key and liveness in each other's place
RowSwapped(features_object) ==
    <<features_object.acousticness, features_object.danceability,
      features_object.energy, features_object.instrumentalness,
      features_object.liveness, features_object.key, features_object.loudness,
      features_object.speechiness, features_object.tempo,
      features_object.time_signature, features_object.valence>>

\* lines 21-33 and 68-80: the eleven fields, in this order
Row(features_object) ==
    <<features_object.acousticness, features_object.danceability,
      features_object.energy, features_object.instrumentalness,
      features_object.key, features_object.liveness, features_object.loudness,
      features_object.speechiness, features_object.tempo,
      features_object.time_signature, features_object.valence>>

\* lines 38-50 and 84-96
feature_names ==
    <<"acousticness", "danceability", "energy", "instrumentalness", "key",
      "liveness", "loudness", "speechiness", "tempo", "time_signature", "valence">>

\* Array2::from_shape_vec((rows, cols), flat): row i is flat[(i-1)*cols+1 .. i*cols]
FromShapeVec(rows, cols, flat) ==
    [i \in 1..rows |-> SubSeq(flat, (i - 1) * cols + 1, i * cols)]

\* Target with the threshold off by one
TargetAboveOne(target_bytes) == target_bytes[1] > 1

\* line 34
Target(target_bytes) == target_bytes[1] > 0

RECURSIVE FittingLoop(_, _, _)
\* feature_dataset_for_fitting, lines 16-37: <<features, targets>>
FittingLoop(features_tree, feature_tree, keys) ==
    IF keys = <<>> THEN <<(<<>>), (<<>>)>>
    ELSE LET id == Head(keys)
             target_bytes == feature_tree[id]
             rest == FittingLoop(features_tree, feature_tree, Tail(keys))
         IN IF id \in DOMAIN features_tree
                /\ FromSliceOption(features_tree[id]) # None
            THEN <<Row(FromSliceOption(features_tree[id])[1]) \o rest[1],
                   <<Target(target_bytes)>> \o rest[2]>>
            ELSE rest

\* feature_dataset_for_fitting, lines 12-55
FittingDataset(d, feature_name) ==
    LET o == OpenTree(OpenTree(d, FeaturesName), InputName(feature_name))
        ft == FittingLoop(o[FeaturesName], o[InputName(feature_name)],
                          Iter(DOMAIN o[InputName(feature_name)]))
    IN [records |-> FromShapeVec(Len(ft[2]), Len(feature_names), ft[1]),
        targets |-> ft[2]]

RECURSIVE PredictionLoop(_, _)
\* feature_dataset_for_prediction, lines 64-83: <<features, targets>>
PredictionLoop(features_tree, keys) ==
    IF keys = <<>> THEN <<(<<>>), (<<>>)>>
    ELSE LET id_bytes == Head(keys)
             features_option == FromSliceOption(features_tree[id_bytes])
             rest == PredictionLoop(features_tree, Tail(keys))
         IN IF features_option # None
            THEN <<Row(features_option[1]) \o rest[1], <<id_bytes>> \o rest[2]>>
            ELSE rest

\* feature_dataset_for_prediction, lines 61-101
PredictionDataset(d) ==
    LET o == OpenTree(d, FeaturesName)
        ft == PredictionLoop(o[FeaturesName], Iter(DOMAIN o[FeaturesName]))
    IN [records |-> FromShapeVec(Len(ft[2]), Len(feature_names), ft[1]),
        targets |-> ft[2]]

feature_dataset_for_fitting(feature_name) ==
    /\ server \in {"serving", "draining"}
    /\ db' = OpenTree(OpenTree(db, FeaturesName), InputName(feature_name))
    /\ resp' = Ok("fitting", feature_name, FittingDataset(db, feature_name))
    /\ UNCHANGED <<remote, pc, cursor, fetched, prev, runs, errors>>
    /\ UNCHANGED serviceVars
    /\ UNCHANGED authVars
    /\ UNCHANGED playlistVars

feature_dataset_for_prediction ==
    /\ server \in {"serving", "draining"}
    /\ db' = OpenTree(db, FeaturesName)
    /\ resp' = Ok("prediction", "", PredictionDataset(db))
    /\ UNCHANGED <<remote, pc, cursor, fetched, prev, runs, errors>>
    /\ UNCHANGED serviceVars
    /\ UNCHANGED authVars
    /\ UNCHANGED playlistVars

(***************************************************************************)
(* data_input.rs: the shutdown signal of the labeling web service          *)
(***************************************************************************)
\* Take as a read that leaves the sender in the slot
TakeKeep(slot) == [taken |-> slot, left |-> slot]

\* Option::take on the slot: what the caller gets, what the slot keeps
Take(slot) == [taken |-> slot, left |-> None]

\* shutdown, lines 156-158: the request h gets the mutex
ShutdownLock(h) ==
    /\ server \in {"serving", "draining"}
    /\ hpc[h] = "idle"
    /\ lock = 0
    /\ lock' = h
    /\ hpc' = [hpc EXCEPT ![h] = "locked"]
    /\ UNCHANGED <<shutdown_mechanism, shutdown_rx, server>>
    /\ UNCHANGED storeVars
    /\ UNCHANGED authVars
    /\ UNCHANGED playlistVars

\* shutdown, lines 159-163: take the sender, expect it, send, drop the guard
ShutdownTake(h) ==
    /\ hpc[h] = "locked"
    /\ lock = h
    /\ shutdown_mechanism' = Take(shutdown_mechanism).left
    /\ IF Take(shutdown_mechanism).taken = None
       THEN \* .expect("shutdown race lost") panics
            /\ hpc' = [hpc EXCEPT ![h] = "panicked"]
            /\ shutdown_rx' = shutdown_rx
       ELSE /\ hpc' = [hpc EXCEPT ![h] = "ok"]
            /\ shutdown_rx' = "sent"
    /\ lock' = 0
    /\ UNCHANGED server
    /\ UNCHANGED storeVars
    /\ UNCHANGED authVars
    /\ UNCHANGED playlistVars

\* Resolved with the server not waiting for the signal
ResolvedAlways(r) == TRUE

\* web_interface, lines 78-80: shutdown_rx.await has resolved
Resolved(r) == r = "sent"

\* web_interface, lines 77-80: shutdown_rx resolves, the server stops accepting
GracefulShutdown ==
    /\ server = "serving"
    /\ Resolved(shutdown_rx)
    /\ server' = "draining"
    /\ UNCHANGED <<shutdown_mechanism, shutdown_rx, lock, hpc>>
    /\ UNCHANGED storeVars
    /\ UNCHANGED authVars
    /\ UNCHANGED playlistVars

\* web_interface, lines 81-82: the requests in flight are done, the server
\* future completes and web_interface returns to main, line 49
WebInterfaceReturn ==
    /\ server = "draining"
    /\ \A h \in Requests : hpc[h] # "locked"
    /\ server' = "stopped"
    /\ pc' = "update"
    /\ UNCHANGED <<shutdown_mechanism, shutdown_rx, lock, hpc>>
    /\ UNCHANGED <<db, remote, cursor, fetched, prev, runs, errors, resp>>
    /\ UNCHANGED authVars
    /\ UNCHANGED playlistVars

(***************************************************************************)
(* main.rs: the rest of main                                               *)
(***************************************************************************)
\* main, lines 50-52: perform_update is called and main ends ("exit"), be it
\* with Ok, with the error or with the panic of perform_update, whose own
\* steps are FetchMainPlaylist, ReplaceItems, DrainBatch and AddItems
PerformUpdate ==
    /\ pc = "update"
    /\ pc' = "exit"
    /\ UNCHANGED <<db, remote, cursor, fetched, prev, runs, errors, resp>>
    /\ UNCHANGED serviceVars
    /\ UNCHANGED authVars
    /\ UNCHANGED playlistVars

\* one POST /api/shutdown served alone, the service ended by it and main run
\* to its end: ShutdownLock, ShutdownTake, GracefulShutdown, WebInterfaceReturn
\* and PerformUpdate in one step
Finish ==
    /\ server = "serving"
    /\ \A h \in Requests : hpc[h] = "idle"
    /\ shutdown_mechanism' = Take(shutdown_mechanism).left
    /\ shutdown_rx' = "sent"
    /\ server' = "stopped"
    /\ hpc' = [hpc EXCEPT ![1] = "ok"]
    /\ pc' = "exit"
    /\ UNCHANGED lock
    /\ UNCHANGED <<db, remote, cursor, fetched, prev, runs, errors, resp>>
    /\ UNCHANGED authVars
    /\ UNCHANGED playlistVars

\* the program is started again on the same store
Restart ==
    /\ pc \in {"exit", "failed"}
    /\ runs < MaxRuns
    /\ runs' = runs + 1
    /\ pc' = "start"
    /\ resp' = NoResponse
    /\ shutdown_mechanism' = None
    /\ shutdown_rx' = "pending"
    /\ lock' = 0
    /\ hpc' = [h \in Requests |-> "idle"]
    /\ server' = "off"
    /\ UNCHANGED <<db, remote, cursor, fetched, prev, errors>>
    /\ UNCHANGED authVars
    /\ UNCHANGED playlistVars

(***************************************************************************)
(* kickstart.rs: token acquisition                                         *)
(***************************************************************************)
\* authed_client taking any cache file, the expired token too
authed_client_any(c) == c # "absent"

\* authed_client, lines 78-84: Ok(client) when read_token_cache gives
\* Ok(Some(token)), which it does for a cached token that has not expired
authed_client(c) == c = "valid"

\* Expect with the error ignored
ExpectIgnored(ok) == TRUE

\* Result::expect, lines 102 and 106: whether the handler goes on (else it
\* panics)
Expect(ok) == ok

\* Signalled with the receiver never resolving
SignalledNever(r) == FALSE

\* lines 42-44: shutdown_rx.await has resolved
Signalled(r) == r = "sent"

\* kickstart, lines 19-21
KickstartEntry ==
    /\ kpc = "entry"
    /\ kpc' = IF authed_client(cache) THEN "returned" ELSE "loop"
    /\ UNCHANGED <<cache, txs, rx, txs_lock, cpc, stage, listener, armed, sent,
                   invalidations>>
    /\ UNCHANGED storeVars
    /\ UNCHANGED serviceVars
    /\ UNCHANGED playlistVars

\* kickstart, lines 23-36: the cache is read again; when that fails a new
\* channel is created, its sender put in the slot and the server bound
KickstartLoop ==
    /\ kpc = "loop"
    /\ IF authed_client(cache)
       THEN /\ kpc' = "returned"
            /\ UNCHANGED <<txs, rx, cpc, stage, listener, armed>>
       ELSE /\ kpc' = "bound"
            /\ txs' = Some("shutdown_tx")
            /\ rx' = "pending"
            /\ listener' = "bound"
            /\ armed' = armed + 1
            /\ cpc' = [h \in Requests |-> "idle"]
            /\ stage' = [h \in Requests |-> "none"]
    /\ UNCHANGED <<cache, txs_lock, sent, invalidations>>
    /\ UNCHANGED storeVars
    /\ UNCHANGED serviceVars
    /\ UNCHANGED playlistVars

\* kickstart, lines 38-41: the authorize URL is opened in the browser and the
\* server awaited; when the browser cannot be opened the error is returned,
\* the server and the slot are dropped
OpenBrowser ==
    /\ kpc = "bound"
    /\ \E opened \in BOOLEAN :
          IF opened
          THEN kpc' = "waiting" /\ listener' = "serving" /\ txs' = txs
          ELSE kpc' = "failed" /\ listener' = "off" /\ txs' = None
    /\ UNCHANGED <<cache, rx, txs_lock, cpc, stage, armed, sent, invalidations>>
    /\ UNCHANGED storeVars
    /\ UNCHANGED serviceVars
    /\ UNCHANGED playlistVars

\* a GET /api/callback?code=..&state=.. reaches the server, lines 93-98
CallbackArrive(h) ==
    /\ listener = "serving"
    /\ cpc[h] = "idle"
    /\ cpc' = [cpc EXCEPT ![h] = "request"]
    /\ UNCHANGED <<cache, kpc, txs, rx, txs_lock, stage, listener, armed, sent,
                   invalidations>>
    /\ UNCHANGED storeVars
    /\ UNCHANGED serviceVars
    /\ UNCHANGED playlistVars

\* auth_callback, lines 99-102: the code is exchanged for a token
RequestToken(h) ==
    /\ cpc[h] = "request"
    /\ \E ok \in BOOLEAN :
          /\ cpc' = [cpc EXCEPT ![h] = IF Expect(ok) THEN "write"
                                       ELSE "requesting token failed"]
          /\ stage' = [stage EXCEPT ![h] = IF ok THEN "token" ELSE @]
    /\ UNCHANGED <<cache, kpc, txs, rx, txs_lock, listener, armed, sent,
                   invalidations>>
    /\ UNCHANGED storeVars
    /\ UNCHANGED serviceVars
    /\ UNCHANGED playlistVars

\* auth_callback, lines 103-106: the client's token, when it has one, is
\* written to the cache file
WriteTokenCache(h) ==
    /\ cpc[h] = "write"
    /\ \E ok \in BOOLEAN :
          /\ cpc' = [cpc EXCEPT ![h] = IF Expect(ok) THEN "lock"
                                       ELSE "writing token cache failed"]
          /\ IF ok /\ stage[h] = "token"
             THEN cache' = "valid" /\ stage' = [stage EXCEPT ![h] = "cached"]
             ELSE UNCHANGED <<cache, stage>>
    /\ UNCHANGED <<kpc, txs, rx, txs_lock, listener, armed, sent, invalidations>>
    /\ UNCHANGED storeVars
    /\ UNCHANGED serviceVars
    /\ UNCHANGED playlistVars

\* auth_callback, lines 107-108: the request h gets the mutex
CallbackLock(h) ==
    /\ cpc[h] = "lock"
    /\ txs_lock = 0
    /\ txs_lock' = h
    /\ cpc' = [cpc EXCEPT ![h] = "locked"]
    /\ UNCHANGED <<cache, kpc, txs, rx, stage, listener, armed, sent,
                   invalidations>>
    /\ UNCHANGED storeVars
    /\ UNCHANGED serviceVars
    /\ UNCHANGED playlistVars

\* auth_callback, lines 109-113: take the sender, expect it, send, drop the
\* guard
CallbackTake(h) ==
    /\ cpc[h] = "locked"
    /\ txs_lock = h
    /\ txs' = Take(txs).left
    /\ IF Take(txs).taken = None
       THEN /\ cpc' = [cpc EXCEPT ![h] = "auth race lost"]
            /\ UNCHANGED <<rx, sent>>
       ELSE /\ cpc' = [cpc EXCEPT ![h] = "ok"]
            /\ rx' = "sent"
            /\ sent' = sent + 1
    /\ txs_lock' = 0
    /\ UNCHANGED <<cache, kpc, stage, listener, armed, invalidations>>
    /\ UNCHANGED storeVars
    /\ UNCHANGED serviceVars
    /\ UNCHANGED playlistVars

\* the callback requests the server is still handling
InFlight == {h \in Requests : cpc[h] \in {"request", "write", "lock", "locked"}}

\* kickstart, lines 42-44: shutdown_rx resolves, the server stops accepting
ListenerShutdown ==
    /\ listener = "serving"
    /\ Signalled(rx)
    /\ listener' = "draining"
    /\ UNCHANGED <<cache, kpc, txs, rx, txs_lock, cpc, stage, armed, sent,
                   invalidations>>
    /\ UNCHANGED storeVars
    /\ UNCHANGED serviceVars
    /\ UNCHANGED playlistVars

\* kickstart, lines 41-47 and 22: the requests in flight are done, the server
\* future completes, server and slot are dropped and the loop goes round
ListenerReturn ==
    /\ listener = "draining"
    /\ InFlight = {}
    /\ listener' = "off"
    /\ txs' = None
    /\ kpc' = "loop"
    /\ UNCHANGED <<cache, rx, txs_lock, cpc, stage, armed, sent, invalidations>>
    /\ UNCHANGED storeVars
    /\ UNCHANGED serviceVars
    /\ UNCHANGED playlistVars

\* the cached token expires or the cache file is removed: read_token_cache no
\* longer gives Ok(Some(token)), lines 80-83
CacheInvalidated ==
    /\ cache = "valid"
    /\ invalidations < MaxInvalidations
    /\ cache' \in {"expired", "absent"}
    /\ invalidations' = invalidations + 1
    /\ UNCHANGED <<kpc, txs, rx, txs_lock, cpc, stage, listener, armed, sent>>
    /\ UNCHANGED storeVars
    /\ UNCHANGED serviceVars
    /\ UNCHANGED playlistVars

\* main, lines 37-40: kickstart has returned, the client or the error
ObtainClient ==
    /\ pc = "obtain"
    /\ kpc \in {"returned", "failed"}
    /\ pc' = IF kpc = "returned" THEN "start" ELSE "failed"
    /\ UNCHANGED <<db, remote, cursor, fetched, prev, runs, errors, resp>>
    /\ UNCHANGED serviceVars
    /\ UNCHANGED authVars
    /\ UNCHANGED playlistVars

(***************************************************************************)
(* main.rs: perform_update and write_playlist                              *)
(***************************************************************************)
\* tracks.drain(0..100): the length of a batch
BatchSize == 100

\* main_playlist.iter().rev().take(100): the tracks perform_update keeps
TakeSize == 100

\* main_playlist.iter().rev().take(100).cloned().collect()
reduced_tracks(s) ==
    LET n == Len(s)
        m == IF n < TakeSize THEN n ELSE TakeSize
    IN [k \in 1..m |-> s[n - k + 1]]

\* VecDeque::drain(start..end): panics when end is beyond the length of the
\* deque (or start beyond end), else removes and yields the elements of the
\* range
Drain(q, start, end) ==
    IF start > end \/ end > Len(q)
    THEN [panic |-> TRUE, taken |-> <<>>, left |-> q]
    ELSE [panic |-> FALSE,
          taken |-> SubSeq(q, start + 1, end),
          left |-> SubSeq(q, 1, start) \o SubSeq(q, end + 1, Len(q))]

\* the remote's playlist after ids were added at a zero-based position
InsertAt(p, position, ids) ==
    SubSeq(p, 1, position) \o ids \o SubSeq(p, position + 1, Len(p))

\* perform_update: fetch_playlist of the main playlist, then reduced_tracks
\* handed to write_playlist, which takes it into a VecDeque
FetchMainPlaylist ==
    /\ pc = "update"
    /\ upc = "idle"
    /\ \E ok \in BOOLEAN :
          IF ok
          THEN \E n \in 0..MaxPlaylist :
                  /\ source_playlist' = [k \in 1..n |-> k]
                  /\ tracks_deque' = reduced_tracks([k \in 1..n |-> k])
                  /\ upc' = "replace"
                  /\ pc' = pc
          ELSE /\ upc' = "err"
               /\ pc' = "failed"
               /\ UNCHANGED <<source_playlist, tracks_deque>>
    /\ UNCHANGED <<loop_i, batch, playlist, calls>>
    /\ UNCHANGED <<db, remote, cursor, fetched, prev, runs, errors, resp>>
    /\ UNCHANGED serviceVars
    /\ UNCHANGED authVars

\* write_playlist: client.playlist_replace_items(id, vec![]).await?
ReplaceItems ==
    /\ pc = "update"
    /\ upc = "replace"
    /\ \E ok \in BOOLEAN :
          IF ok
          THEN /\ playlist' = <<>>
               /\ calls' = Append(calls, [op |-> "replace", position |-> 0,
                                          ids |-> <<>>])
               /\ loop_i' = 0
               /\ upc' = "loop"
               /\ pc' = pc
          ELSE /\ upc' = "err"
               /\ pc' = "failed"
               /\ UNCHANGED <<playlist, calls, loop_i>>
    /\ UNCHANGED <<source_playlist, tracks_deque, batch>>
    /\ UNCHANGED <<db, remote, cursor, fetched, prev, runs, errors, resp>>
    /\ UNCHANGED serviceVars
    /\ UNCHANGED authVars

\* write_playlist: the head of the loop body: break when the deque is empty,
\* else tracks.drain(0..100) into the batch
DrainBatch ==
    /\ pc = "update"
    /\ upc = "loop"
    /\ IF tracks_deque = <<>>
       THEN /\ upc' = "ok"
            /\ pc' = "exit"
            /\ UNCHANGED <<tracks_deque, batch>>
       ELSE LET d == Drain(tracks_deque, 0, BatchSize)
            IN IF d.panic
               THEN /\ upc' = "panicked"
                    /\ pc' = "failed"
                    /\ UNCHANGED <<tracks_deque, batch>>
               ELSE /\ batch' = d.taken
                    /\ tracks_deque' = d.left
                    /\ upc' = "add"
                    /\ pc' = pc
    /\ UNCHANGED <<source_playlist, loop_i, playlist, calls>>
    /\ UNCHANGED <<db, remote, cursor, fetched, prev, runs, errors, resp>>
    /\ UNCHANGED serviceVars
    /\ UNCHANGED authVars

\* write_playlist: client.playlist_add_items(id, batch, Some(i * 100)).await?
\* and the end of the loop body: the batch is dropped, i goes up by one
AddItems ==
    /\ pc = "update"
    /\ upc = "add"
    /\ LET position == loop_i * 100
       IN \E ok \in {a \in BOOLEAN : a => position <= Len(playlist)} :
             IF ok
             THEN /\ playlist' = InsertAt(playlist, position, batch)
                  /\ calls' = Append(calls, [op |-> "add",
                                             position |-> position,
                                             ids |-> batch])
                  /\ batch' = <<>>
                  /\ loop_i' = loop_i + 1
                  /\ upc' = "loop"
                  /\ pc' = pc
             ELSE /\ upc' = "err"
                  /\ pc' = "failed"
                  /\ UNCHANGED <<playlist, calls, loop_i, batch>>
    /\ UNCHANGED <<source_playlist, tracks_deque>>
    /\ UNCHANGED <<db, remote, cursor, fetched, prev, runs, errors, resp>>
    /\ UNCHANGED serviceVars
    /\ UNCHANGED authVars

\* the remote services the model starts from: a track outside the target
\* market always has an audio analysis
Remotes ==
    {r \in [kind : [TrackIds -> Kinds], avail : [TrackIds -> BOOLEAN],
            limit : 0..ChunkSize, version : {1}] :
        \A t \in TrackIds : r.avail[t] \/ r.kind[t] = "P+"}

Init ==
    /\ db = [n \in {"__sled__default"} |-> EmptyTree]
    /\ remote \in Remotes
    /\ pc = "start"
    /\ cursor = 0
    /\ fetched = {}
    /\ prev = None
    /\ runs = 1
    /\ errors = 0
    /\ resp = NoResponse
    /\ shutdown_mechanism = None
    /\ shutdown_rx = "pending"
    /\ lock = 0
    /\ hpc = [h \in Requests |-> "idle"]
    /\ server = "off"
    /\ cache = "valid"
    /\ kpc = "returned"
    /\ txs = None
    /\ rx = "pending"
    /\ txs_lock = 0
    /\ cpc = [h \in Requests |-> "idle"]
    /\ stage = [h \in Requests |-> "none"]
    /\ listener = "off"
    /\ armed = 0
    /\ sent = 0
    /\ invalidations = 0
    /\ upc = "idle"
    /\ source_playlist = <<>>
    /\ tracks_deque = <<>>
    /\ loop_i = 0
    /\ batch = <<>>
    /\ playlist = <<>>
    /\ calls = <<>>

\* one run of the program on a new store, up to the request that ends it
Next ==
    \/ Start({FALSE}, {TRUE})
    \/ PopulateTracks
    \/ PopulateBatch
    \/ PopulateDone({TRUE})
    \/ list_features
    \/ \E feature_id \in FeatureIds : create_feature(feature_id)
    \/ \E feature_id \in FeatureIds : random_untrained_track_for_feature(feature_id)
    \/ \E feature_id \in FeatureIds, track_id \in TrackIds, rating \in Ratings :
          rate_feature_for_track(feature_id, track_id, rating)
    \/ \E feature_name \in FeatureIds : feature_dataset_for_fitting(feature_name)
    \/ feature_dataset_for_prediction

Spec == Init /\ [][Next]_vars

\* the program run again and again on the same store while the remote
\* service changes, one feature being labeled
NextRuns ==
    \/ Start(BOOLEAN, {TRUE})
    \/ PopulateTracks
    \/ PopulateBatch
    \/ PopulateDone({TRUE})
    \/ RemoteChange
    \/ list_features
    \/ create_feature("a")
    \/ random_untrained_track_for_feature("a")
    \/ \E track_id \in TrackIds : rate_feature_for_track("a", track_id, 1)
    \/ feature_dataset_for_fitting("a")
    \/ feature_dataset_for_prediction
    \/ Finish
    \/ Restart

SpecRuns == Init /\ [][NextRuns]_vars

\* main with its web service, the shutdown requests racing each other and the
\* feature handlers
NextService ==
    \/ Start(BOOLEAN, BOOLEAN)
    \/ PopulateTracks
    \/ PopulateBatch
    \/ PopulateDone(BOOLEAN)
    \/ list_features
    \/ \E feature_id \in FeatureIds : create_feature(feature_id)
    \/ \E h \in Requests : ShutdownLock(h)
    \/ \E h \in Requests : ShutdownTake(h)
    \/ GracefulShutdown
    \/ WebInterfaceReturn
    \/ PerformUpdate

SpecService == Init /\ [][NextService]_vars

\* the tokio runtime runs the server and the handlers of the shutdown requests
\* that have arrived; whether a request arrives is up to the user
FairService ==
    /\ WF_vars(GracefulShutdown)
    /\ WF_vars(WebInterfaceReturn)
    /\ \A h \in Requests : WF_vars(ShutdownTake(h))

SpecServiceFair == Init /\ [][NextService]_vars /\ FairService

\* main at its first line, the token cache in any condition
InitAuth ==
    /\ db = [n \in {"__sled__default"} |-> EmptyTree]
    /\ remote = [kind |-> [t \in TrackIds |-> "P+"],
                 avail |-> [t \in TrackIds |-> TRUE],
                 limit |-> ChunkSize, version |-> 1]
    /\ pc = "obtain"
    /\ cursor = 0
    /\ fetched = {}
    /\ prev = None
    /\ runs = 1
    /\ errors = 0
    /\ resp = NoResponse
    /\ shutdown_mechanism = None
    /\ shutdown_rx = "pending"
    /\ lock = 0
    /\ hpc = [h \in Requests |-> "idle"]
    /\ server = "off"
    /\ cache \in {"absent", "expired", "valid"}
    /\ kpc = "entry"
    /\ txs = None
    /\ rx = "pending"
    /\ txs_lock = 0
    /\ cpc = [h \in Requests |-> "idle"]
    /\ stage = [h \in Requests |-> "none"]
    /\ listener = "off"
    /\ armed = 0
    /\ sent = 0
    /\ invalidations = 0
    /\ upc = "idle"
    /\ source_playlist = <<>>
    /\ tracks_deque = <<>>
    /\ loop_i = 0
    /\ batch = <<>>
    /\ playlist = <<>>
    /\ calls = <<>>

\* kickstart, its callback listener and the OAuth callbacks racing each other
NextAuth ==
    \/ KickstartEntry
    \/ KickstartLoop
    \/ OpenBrowser
    \/ \E h \in Requests : CallbackArrive(h)
    \/ \E h \in Requests : RequestToken(h)
    \/ \E h \in Requests : WriteTokenCache(h)
    \/ \E h \in Requests : CallbackLock(h)
    \/ \E h \in Requests : CallbackTake(h)
    \/ ListenerShutdown
    \/ ListenerReturn
    \/ CacheInvalidated
    \/ ObtainClient

SpecAuth == InitAuth /\ [][NextAuth]_vars

\* the tokio runtime runs every task that can go on: kickstart, the server
\* and the handlers of the requests that have arrived; whether a callback
\* arrives is up to the user
FairAuth ==
    /\ WF_vars(KickstartEntry \/ KickstartLoop \/ OpenBrowser)
    /\ WF_vars(ListenerShutdown)
    /\ WF_vars(ListenerReturn)
    /\ \A h \in Requests :
          /\ WF_vars(RequestToken(h))
          /\ WF_vars(WriteTokenCache(h))
          /\ WF_vars(CallbackLock(h))
          /\ WF_vars(CallbackTake(h))

SpecAuthFair == InitAuth /\ [][NextAuth]_vars /\ FairAuth

\* the contents the rewritten playlist may have before the rewrite
OldPlaylists == {<<>>, <<1>>, <<2, 1>>}

\* main at line 50: the labeling service has returned and perform_update is
\* about to be called
InitPlaylist ==
    /\ db = [n \in {"__sled__default"} |-> EmptyTree]
    /\ remote = [kind |-> [t \in TrackIds |-> "P+"],
                 avail |-> [t \in TrackIds |-> TRUE],
                 limit |-> ChunkSize, version |-> 1]
    /\ pc = "update"
    /\ cursor = 0
    /\ fetched = {}
    /\ prev = None
    /\ runs = 1
    /\ errors = 0
    /\ resp = NoResponse
    /\ shutdown_mechanism = None
    /\ shutdown_rx = "sent"
    /\ lock = 0
    /\ hpc = [h \in Requests |-> "idle"]
    /\ server = "stopped"
    /\ cache = "valid"
    /\ kpc = "returned"
    /\ txs = None
    /\ rx = "pending"
    /\ txs_lock = 0
    /\ cpc = [h \in Requests |-> "idle"]
    /\ stage = [h \in Requests |-> "none"]
    /\ listener = "off"
    /\ armed = 0
    /\ sent = 0
    /\ invalidations = 0
    /\ upc = "idle"
    /\ source_playlist = <<>>
    /\ tracks_deque = <<>>
    /\ loop_i = 0
    /\ batch = <<>>
    /\ playlist \in OldPlaylists
    /\ calls = <<>>

\* perform_update with its write_playlist, step by step
NextPlaylist ==
    \/ FetchMainPlaylist
    \/ ReplaceItems
    \/ DrainBatch
    \/ AddItems

SpecPlaylist == InitPlaylist /\ [][NextPlaylist]_vars

(***************************************************************************)
(* Properties                                                              *)
(***************************************************************************)
Tree(d, name) == IF name \in DOMAIN d THEN d[name] ELSE EmptyTree
Details == Tree(db, DetailsName)
Features == Tree(db, FeaturesName)
Labels(feature_id) == Tree(db, InputName(feature_id))

\* the track has a feature-vector record and it is not the "unavailable" marker
Available(d, t) ==
    t \in DOMAIN Tree(d, FeaturesName) /\ Tree(d, FeaturesName)[t] # <<"null">>

\* the remote service lists the track as available in the target market
InTargetMarket(t) == remote.kind[t] = "P+"

\* the tracks of the catalog that next_untrained may return for the feature
Eligible(d, feature_id) ==
    {t \in DOMAIN Tree(d, DetailsName) :
        /\ t \notin DOMAIN Tree(d, InputName(feature_id))
        /\ Available(d, t)
        /\ InTargetMarket(t)}

Selected == resp.op = "random_untrained" /\ resp.status = "ok"

\* the eleven descriptors of a stored feature-vector record, by field name
ExpectedRow(bytes) == [j \in 1..Len(feature_names) |-> bytes[2][feature_names[j]]]

\* C1: a track that has a Label Record in feature F is never the track that
\* next_untrained(F) returns.
C1_LabeledNeverReturned ==
    Selected => resp.body.id[1] \notin DOMAIN Labels(resp.arg)

\* C1 witness: next_untrained(F) returned a track after passing over an earlier
\* track that is in the market and has a feature vector, but is labeled for F.
C1_Witness ==
    /\ Selected
    /\ \E t \in DOMAIN Labels(resp.arg) :
          t < resp.body.id[1] /\ InTargetMarket(t) /\ Available(db, t)

\* C2: a track whose feature-vector record is the "unavailable" marker is
\* never returned by next_untrained, has no row in the prediction dataset, and
\* the fitting dataset holds rows of labeled tracks with an available vector
\* only, at most one each.
C2_UnavailableExcluded ==
    /\ Selected => Features[resp.body.id[1]] # <<"null">>
    /\ resp.op = "prediction" =>
          \A i \in 1..Len(resp.body.targets) :
              Features[resp.body.targets[i]] # <<"null">>
    /\ resp.op = "fitting" =>
          LET usable == {t \in DOMAIN Labels(resp.arg) : Available(db, t)}
          IN /\ Len(resp.body.targets) <= Cardinality(usable)
             /\ \A i \in DOMAIN resp.body.records :
                   \E t \in usable :
                       resp.body.records[i] = ExpectedRow(Features[t])

\* C2 witness: next_untrained(F) returned a track after passing over an earlier
\* track that is in the market and unlabeled for F, but marked "unavailable".
C2_Witness ==
    /\ Selected
    /\ \E t \in DOMAIN Features :
          /\ Features[t] = <<"null">>
          /\ t < resp.body.id[1]
          /\ InTargetMarket(t)
          /\ t \notin DOMAIN Labels(resp.arg)

\* C3: a rated track stays rated, so a track returned for F and then rated for
\* F is not returned for F again; a returned track has a feature-vector
\* record; and when no track is eligible (unlabeled for F, available vector,
\* in the target market) next_untrained(F) answers "no more tracks".
C3_SelectThenRateExhausts ==
    [][/\ \A f \in FeatureIds :
             DOMAIN Tree(db, InputName(f)) \subseteq DOMAIN Tree(db', InputName(f))
       /\ resp'.op = "random_untrained" =>
             /\ resp'.status = "ok" =>
                   /\ resp'.body.id[1] \notin DOMAIN Tree(db', InputName(resp'.arg))
                   /\ resp'.body.id[1] \in DOMAIN Tree(db', FeaturesName)
             /\ Eligible(db', resp'.arg) = {} =>
                   resp'.status = "err" /\ resp'.body = "no more tracks"]_vars

\* C3 witness: next_untrained(F) answered "no more tracks" although one track
\* in the market with a feature vector exists (it is rated for F) and another
\* in the market, unlabeled, has no feature-vector record.
C3_Witness ==
    /\ resp.op = "random_untrained"
    /\ resp.status = "err"
    /\ \E t \in DOMAIN Labels(resp.arg) : InTargetMarket(t) /\ Available(db, t)
    /\ \E u \in DOMAIN Details :
          /\ u \notin DOMAIN Features
          /\ InTargetMarket(u)
          /\ u \notin DOMAIN Labels(resp.arg)

LabelOf(d, feature_id, track_id) == Get(Tree(d, InputName(feature_id)), track_id)

\* C4: after record(F, T, r) the Label Record of (F, T) is the single byte r,
\* whatever it was before, and no other Label Record has changed.
C4_LastWriteWins ==
    [][resp'.op = "rate" =>
          /\ LabelOf(db', resp'.arg[1], resp'.arg[2]) = Some(<<resp'.arg[3]>>)
          /\ \A f \in FeatureIds, t \in TrackIds :
                <<f, t>> # <<resp'.arg[1], resp'.arg[2]>> =>
                    LabelOf(db', f, t) = LabelOf(db, f, t)]_vars

\* C4 witness: a rating replaced a different rating of the same (F, T) while
\* another Label Record exists.
C4_Witness ==
    /\ resp.op = "rate"
    /\ resp.old # None
    /\ resp.old # Some(<<resp.arg[3]>>)
    /\ Cardinality(LabelRecords(db)) > 1

\* C5: when a populate run ends after an earlier complete run and the remote
\* service has not changed in between, the feature-vector namespace is as the
\* earlier run left it and no id that had a record then was fetched.
C5_PopulateIdempotent ==
    (pc = "features" /\ Page(db, cursor) = <<>> /\ prev # None) =>
        /\ db[FeaturesName] = prev[1]
        /\ fetched \cap DOMAIN prev[1] = {}

\* C6: after populate_database has returned successfully every track of the
\* detail namespace has a feature-vector record: the audio features the remote
\* service has for that id, or the "unavailable" marker when it has none.
C6_EveryTrackHasRecord ==
    (pc = "web" /\ prev # None) =>
        \A t \in DOMAIN Details :
            Get(Features, t) =
                Some(ToVecOption(IF remote.avail[t]
                                 THEN Some(AudioFeatures(t, remote.version))
                                 ELSE None))

\* C7: a feature-vector record, once it exists, is neither changed nor removed
\* by any step.
C7_WriteOnce ==
    [][\A t \in DOMAIN Tree(db, FeaturesName) :
          Get(Tree(db', FeaturesName), t) = Some(Tree(db, FeaturesName)[t])]_vars

\* C7 witness: a second populate run, the remote service having changed its
\* analyses, has written a record of the new analysis while a record of the
\* old analysis is still in place.
C7_Witness ==
    /\ runs = 2
    /\ remote.version = 2
    /\ pc = "features"
    /\ \E t \in DOMAIN Features : Features[t] = <<"obj", AudioFeatures(t, 1)>>
    /\ \E u \in fetched : Get(Features, u) = Some(<<"obj", AudioFeatures(u, 2)>>)

\* C8: the fitting dataset of F has one row per Label Record of F whose track
\* has an available feature vector, in key order, and none else; row i is the
\* eleven fields of that track's vector and target i is (label byte > 0).
C8_FittingDataset ==
    resp.op = "fitting" =>
        LET usable == Iter({t \in DOMAIN Labels(resp.arg) : Available(db, t)})
        IN /\ DOMAIN resp.body.records = 1..Len(usable)
           /\ Len(resp.body.targets) = Len(usable)
           /\ \A i \in 1..Len(usable) :
                 /\ resp.body.records[i] = ExpectedRow(Features[usable[i]])
                 /\ resp.body.targets[i] = (Labels(resp.arg)[usable[i]][1] > 0)

\* C8 witness: a fitting dataset of two rows whose targets differ.
C8_Witness ==
    /\ resp.op = "fitting"
    /\ Len(resp.body.targets) = 2
    /\ resp.body.targets[1] # resp.body.targets[2]

\* C9: the prediction dataset has one row per track with an available feature
\* vector, tagged with the track's id, and is a function of the feature-vector
\* namespace alone.
C9_PredictionDataset ==
    resp.op = "prediction" =>
        LET known == Iter({t \in DOMAIN Features : Features[t] # <<"null">>})
        IN /\ resp.body.targets = known
           /\ DOMAIN resp.body.records = 1..Len(known)
           /\ \A i \in 1..Len(known) :
                 resp.body.records[i] = ExpectedRow(Features[known[i]])

\* C9 witness: a prediction dataset of two rows built while a third track is
\* marked "unavailable" and Label Records exist.
C9_Witness ==
    /\ resp.op = "prediction"
    /\ Len(resp.body.targets) = 2
    /\ \E t \in DOMAIN Features : Features[t] = <<"null">>
    /\ LabelRecords(db) # {}

\* C10: of the shutdown requests handled by one running service exactly one
\* takes the signal, sends it and returns "ok"; every other one panics with
\* "shutdown race lost".
C10_OneShutdownWins ==
    LET won == {h \in Requests : hpc[h] = "ok"}
        lost == {h \in Requests : hpc[h] = "panicked"}
    IN /\ Cardinality(won) <= 1
       /\ lost # {} => won # {}
       /\ won # {} => shutdown_mechanism = None /\ shutdown_rx = "sent"

\* C10 witness: two shutdown requests have been handled, one returned "ok" and
\* the other panicked.
C10_Witness ==
    \E h, g \in Requests : hpc[h] = "ok" /\ hpc[g] = "panicked"

\* C11: the set of declared features (what list_features returns) changes
\* only in a create-feature step: next_untrained, rate, populate and the
\* dataset builders never add a feature namespace.
C11_OnlyCreateDeclares ==
    [][FeatureList(db') # FeatureList(db) => resp'.op = "create_feature"]_vars

\* C12: next_untrained or rate called with a feature name that is not
\* declared answers with an error response, not with a success.
C12_UndeclaredIsError ==
    [][/\ (resp'.op = "random_untrained" /\ resp'.arg \notin FeatureList(db))
            => resp'.status = "err"
       /\ (resp'.op = "rate" /\ resp'.arg[1] \notin FeatureList(db))
            => resp'.status = "err"]_vars

\* an OAuth callback of the current listener has exchanged the code,
\* persisted the token and sent the completion signal
CallbackCompleted == \E h \in Requests : cpc[h] = "ok" /\ stage[h] = "cached"

\* C13, as claimed: once the cached token was found invalid, kickstart does
\* not return a client before an OAuth callback has exchanged the code and
\* persisted the token; while it waits for the listener it goes on only after
\* such a callback; and once a callback has completed, kickstart eventually
\* returns an authenticated client.
C13_BlocksUntilCallback ==
    /\ []((armed > 0 /\ kpc = "returned") => CallbackCompleted)
    /\ [][(kpc = "waiting" /\ kpc' # "waiting") => CallbackCompleted]_vars
    /\ (CallbackCompleted ~> kpc = "returned")

\* C13, amended: once the cached token was found invalid, kickstart does not
\* return a client before an OAuth callback has exchanged the code and
\* persisted the token; once the browser is open it leaves its wait only after
\* a callback has sent the signal; and once a callback of listener r has
\* completed, the listener is eventually torn down and the cache read again,
\* upon which kickstart returns the client or starts listener r + 1.
C13_BlocksUntilCallbackOrRestarts ==
    /\ []((armed > 0 /\ kpc = "returned") => CallbackCompleted)
    /\ [][(kpc = "waiting" /\ kpc' # "waiting") =>
              (CallbackCompleted /\ listener' = "off")]_vars
    /\ \A r \in 1..(MaxInvalidations + 1) :
          (armed = r /\ CallbackCompleted) ~> (kpc = "returned" \/ armed > r)

\* C13 witness: kickstart has returned the client after two listeners, the
\* token persisted by the first callback having become invalid before it was
\* read again.
C13_Witness ==
    /\ kpc = "returned"
    /\ armed = 2
    /\ invalidations > 0
    /\ CallbackCompleted

\* the availability-by-market list stored for track t, as a set; no list: {}
MarketsOf(d, t) ==
    LET markets == Tree(d, DetailsName)[t][2].available_markets
    IN IF markets = None THEN {} ELSE {markets[1][i] : i \in 1..Len(markets[1])}

\* the tracks next_untrained(feature_id) may return: unlabeled for the
\* feature, with an available feature vector, listed for the market "PL"
Candidates(d, feature_id) ==
    {t \in DOMAIN Tree(d, DetailsName) :
        /\ t \notin DOMAIN Tree(d, InputName(feature_id))
        /\ Available(d, t)
        /\ "PL" \in MarketsOf(d, t)}

\* C14: next_untrained(F) returns the Track Record with the least key among
\* the candidates (unlabeled for F, available feature vector, market list
\* with "PL"), "no more tracks" exactly when there is none, and the same
\* answer when it is called again with no store write in between.
C14_FirstCandidate ==
    [][resp'.op = "random_untrained" =>
          LET c == Candidates(db, resp'.arg)
          IN /\ c = {} => resp'.status = "err" /\ resp'.body = "no more tracks"
             /\ c # {} =>
                   /\ resp'.status = "ok"
                   /\ resp'.body.id[1] \in c
                   /\ \A t \in c : resp'.body.id[1] <= t
                   /\ resp'.body = Details[resp'.body.id[1]][2]
             /\ Candidates(db', resp'.arg) = c
             /\ (resp.op = "random_untrained" /\ resp.arg = resp'.arg) =>
                   resp' = resp]_vars

\* C14 witness: next_untrained(F) returned a track after passing over an
\* earlier one that is unlabeled for F and has an available feature vector but
\* no market list, a later candidate being left behind.
C14_Witness ==
    /\ Selected
    /\ \E t \in DOMAIN Details :
          /\ t < resp.body.id[1]
          /\ t \notin DOMAIN Labels(resp.arg)
          /\ Available(db, t)
          /\ Details[t][2].available_markets = None
    /\ \E u \in DOMAIN Details :
          /\ u > resp.body.id[1]
          /\ u \in Candidates(db, resp.arg)

\* C15: the completion signal is sent only by a callback handler that has
\* exchanged the code and written the token to the cache, and at most once
\* per channel; a handler whose exchange or cache write fails sends nothing
\* and leaves slot, receiver and kickstart as they were, and as long as no
\* handler has sent, the slot stays armed and kickstart keeps waiting.
C15_SignalAfterPersist ==
    [][/\ sent' # sent =>
             /\ sent' = sent + 1
             /\ sent' <= armed'
             /\ \E h \in Requests :
                   /\ cpc[h] = "locked" /\ cpc'[h] = "ok"
                   /\ stage[h] = "cached"
       /\ rx' = "sent" /\ rx = "pending" => sent' = sent + 1
       /\ \A h \in Requests :
             (cpc'[h] # cpc[h] /\ cpc'[h] \in
                 {"requesting token failed", "writing token cache failed"}) =>
                 /\ stage[h] # "cached"
                 /\ UNCHANGED <<txs, rx, sent, kpc, listener>>
       /\ (kpc' = "waiting" /\ \A h \in Requests : cpc'[h] # "ok") =>
             /\ txs' = Some("shutdown_tx")
             /\ rx' = "pending"
             /\ listener' = "serving"]_vars

\* C15 witness: one callback's exchange has failed, the slot staying armed,
\* and another callback has then persisted the token and sent the signal.
C15_Witness ==
    /\ \E h \in Requests : cpc[h] = "requesting token failed"
    /\ \E g \in Requests : cpc[g] = "ok" /\ stage[g] = "cached"
    /\ rx = "sent"
    /\ sent = armed

\* C16: at most one completion signal is pending at any time: the channels
\* created exceed the signals sent by at most one, whenever the slot holds a
\* sender it is that one, and a new channel is created only when every signal
\* before it was sent and its listener torn down with no request in flight; of
\* the callbacks of one listener that reach the take, exactly one takes the
\* sender and every other one ends in "auth race lost".
C16_OnePendingSignal ==
    [][/\ armed' - sent' \in {0, 1}
       /\ txs' # None => armed' - sent' = 1
       /\ armed' # armed =>
             /\ armed' = armed + 1
             /\ sent = armed
             /\ txs = None
             /\ listener = "off"
             /\ InFlight = {}
       /\ LET won == {h \in Requests : cpc'[h] = "ok"}
              lost == {h \in Requests : cpc'[h] = "auth race lost"}
          IN /\ Cardinality(won) <= 1
             /\ lost # {} => won # {}
             /\ won # {} => txs' = None /\ rx' = "sent"]_vars

\* C16 witness: at the second listener two callbacks have reached the take,
\* one took the sender and the other ended in "auth race lost".
C16_Witness ==
    /\ armed = 2
    /\ \E h, g \in Requests : cpc[h] = "ok" /\ cpc[g] = "auth race lost"

\* C17: kickstart returns the client only in a step in which the cached token
\* is valid; with a valid token at entry that is its first step, no channel
\* created and no listener started; when the read of the loop fails, the next
\* step is the restart (a new channel, its sender in the slot, a new listener
\* bound) and the step after that the opening of the browser, never a return.
C17_ReturnsOnlyAuthenticated ==
    [][/\ (kpc' = "returned" /\ kpc # "returned") =>
             (cache = "valid" /\ kpc \in {"entry", "loop"} /\ listener = "off")
       /\ (kpc = "entry" /\ kpc' # "entry") =>
             /\ armed' = 0 /\ listener' = "off" /\ txs' = None
             /\ kpc' = IF cache = "valid" THEN "returned" ELSE "loop"
       /\ (kpc = "loop" /\ kpc' # "loop") =>
             IF cache = "valid"
             THEN kpc' = "returned" /\ armed' = armed /\ listener' = "off"
             ELSE /\ kpc' = "bound"
                  /\ armed' = armed + 1
                  /\ txs' = Some("shutdown_tx")
                  /\ rx' = "pending"
                  /\ listener' = "bound"
       /\ (kpc = "bound" /\ kpc' # "bound") => kpc' \in {"waiting", "failed"}
       /\ kpc' = "failed" => kpc \in {"bound", "failed"}]_vars

\* C17 witness: after a callback round the cache could not be read, and
\* kickstart has started a second listener and opened the browser again.
C17_Witness ==
    /\ armed = 2
    /\ kpc = "waiting"
    /\ listener = "serving"
    /\ cache # "valid"
    /\ txs # None

\* C18: the server of web_interface stops serving only after a shutdown
\* request has taken the sender and sent the signal; main leaves web_interface
\* for perform_update only when the server has drained and stopped; and once a
\* request has sent the signal, the server eventually stops and main goes on
\* to perform_update.
C18_ServesUntilShutdown ==
    /\ [](server \in {"draining", "stopped"} =>
            /\ shutdown_rx = "sent"
            /\ shutdown_mechanism = None
            /\ \E h \in Requests : hpc[h] = "ok")
    /\ [](pc \in {"update", "exit"} => server = "stopped")
    /\ [][(pc = "web" /\ pc' # "web") =>
              /\ pc' = "update"
              /\ server = "draining" /\ server' = "stopped"
              /\ \A h \in Requests : hpc[h] # "locked"]_vars
    /\ ((pc = "web" /\ \E h \in Requests : hpc[h] = "ok")
            ~> (server = "stopped" /\ pc \in {"update", "exit"}))

\* C18 witness: one shutdown request has sent the signal, a second one has
\* lost the race while the server was draining, the server has stopped and
\* main is about to run perform_update.
C18_Witness ==
    /\ pc = "update"
    /\ server = "stopped"
    /\ \E h, g \in Requests : hpc[h] = "ok" /\ hpc[g] = "panicked"

RECURSIVE PopulateLoop(_, _, _)
\* the store after the loop of populate_database has run from the cursor to
\* its end with no request failing
PopulateLoop(d, cur, r) ==
    LET page == Page(d, cur)
        response == TracksFeatures(r, page)
        featuresets == IF response = None THEN <<>> ELSE response[1]
    IN IF page = <<>> THEN d
       ELSE PopulateLoop([d EXCEPT ![FeaturesName] =
                             InsertZip(d[FeaturesName], page, featuresets)],
                         page[Len(page)], r)

\* the feature-vector namespace one uninterrupted run of populate_database
\* produces on a new store
Uninterrupted(r) ==
    LET d == [n \in {DetailsName, FeaturesName} |->
                 IF n = DetailsName THEN InsertTracks(EmptyTree, AllTracks(r))
                 ELSE EmptyTree]
    IN PopulateLoop(d, 0, r)[FeaturesName]

\* C19: in every step, also of a run that a remote error aborts, each
\* feature-vector record is a complete record (the audio features of its own
\* key, or the marker), no existing record is altered and only ids without a
\* record are fetched; and the successful run that follows an aborted first
\* run, the remote unchanged, ends with the feature-vector namespace an
\* uninterrupted run produces.
C19_AbortIsResumable ==
    [][/\ \A t \in DOMAIN Tree(db', FeaturesName) :
             \/ Tree(db', FeaturesName)[t] = <<"null">>
             \/ \E v \in 1..MaxVersion :
                   Tree(db', FeaturesName)[t] = <<"obj", AudioFeatures(t, v)>>
       /\ \A t \in DOMAIN Tree(db, FeaturesName) :
             Get(Tree(db', FeaturesName), t) = Some(Tree(db, FeaturesName)[t])
       /\ (pc = "features" /\ fetched' # fetched) =>
             (fetched' \ fetched) \cap DOMAIN Tree(db, FeaturesName) = {}
       /\ (pc = "features" /\ pc' = "web" /\ runs = 2 /\ errors = 1
              /\ remote.version = 1) =>
             db'[FeaturesName] = Uninterrupted(remote)]_vars

\* feature names a request path may carry, the declared ones among them
FeatureNames ==
    FeatureIds \cup {"", "/", "a/", "/a", "input/", "input/a", "track_details",
                     "track_features", "__sled__default"}

\* no label namespace is the detail namespace, the feature-vector namespace or
\* the store's default tree, and two names never share a label namespace
LabelNamespacesApart ==
    \A f, g \in FeatureNames :
        /\ InputName(f) \notin {DetailsName, FeaturesName, "__sled__default"}
        /\ InputName(f) = InputName(g) => f = g

\* C20: rating a track for G leaves, for every other feature F, the label
\* namespace of F, the answer of next_untrained(F) and the fitting dataset of
\* F as they were, and leaves the detail and feature-vector namespaces alone;
\* the label namespace of a feature name is never the detail namespace, the
\* feature-vector namespace or the label namespace of another name.
C20_NamespacesIsolated ==
    [][/\ resp'.op = "rate" =>
             /\ \A f \in FeatureIds \ {resp'.arg[1]} :
                   /\ Tree(db', InputName(f)) = Tree(db, InputName(f))
                   /\ RandomUntrained(db', f) = RandomUntrained(db, f)
                   /\ FittingDataset(db', f) = FittingDataset(db, f)
             /\ Tree(db', DetailsName) = Tree(db, DetailsName)
             /\ Tree(db', FeaturesName) = Tree(db, FeaturesName)
       /\ LabelNamespacesApart]_vars

\* C20 witness: a track has just been rated for G while another feature F has
\* a Label Record of its own and that very track is what next_untrained(F)
\* returns.
C20_Witness ==
    /\ resp.op = "rate"
    /\ \E f \in FeatureIds \ {resp.arg[1]} :
          /\ Labels(f) # EmptyTree
          /\ RandomUntrained(db, f) # None
          /\ RandomUntrained(db, f)[1].id[1] = resp.arg[2]

\* the calls write_playlist has made so far: a clearing replace first, then
\* the adds, the k-th of them (from 0) with at most 100 ids at position k*100
CallsInOrder ==
    /\ calls # <<>> => calls[1] = [op |-> "replace", position |-> 0,
                                    ids |-> <<>>]
    /\ \A k \in 2..Len(calls) :
          /\ calls[k].op = "add"
          /\ Len(calls[k].ids) \in 1..BatchSize
          /\ calls[k].position = (k - 2) * 100

\* C21: write_playlist, for a track list of any length (empty, shorter than
\* 100, not a multiple of 100), first clears the playlist, then adds the
\* tracks in batches of at most 100 ids, batch i at position i*100, and never
\* panics; when it returns Ok the playlist holds every track of the list
\* exactly once, in the order of the list.
C21_RewritesInBatches ==
    /\ upc # "panicked"
    /\ CallsInOrder
    /\ upc \in {"loop", "add", "ok"} =>
          playlist \o batch \o tracks_deque = reduced_tracks(source_playlist)
    /\ upc = "ok" => playlist = reduced_tracks(source_playlist)

====
